---- MODULE Spec2Model ----
(***************************************************************************)
(* Model of tender_ai_tagging_builder.py: the document reader, the regex   *)
(* extraction engine (find_first / find_all / render_value /               *)
(* run_extractors), the BID_INFO upsert, the amendment tracker and the     *)
(* main pipeline.                                                          *)
(*                                                                         *)
(* A text is a sequence of one-character strings.  Python's None is the    *)
(* value None below, which is no text.  A regular expression is a tree of  *)
(* records, matched the way Python's backtracking matcher does: the        *)
(* results of a node are listed in the order the matcher tries them.       *)
(***************************************************************************)
EXTENDS Integers, Sequences, FiniteSets, TLC

VARIABLES
    pc,              \* position of the operation being run
    text,            \* rendering: the text searched
    rx,              \* rendering: the compiled pattern
    value_expr,      \* rendering: the value template
    m,               \* rendering: the match handed to render_value
    value,           \* rendering: what render_value returned
    pages,           \* List[Tuple[int,str]]: the (page number, text) pairs in hand
    extractors,      \* the directives run_extractors has still to apply
    results,         \* run_extractors' results: the TagRows emitted so far
    lastExt,         \* the directive applied last
    bid_info_df,     \* the BID_INFO table: its rows, in index order
    mapping,         \* the mapping handed to the last upsert_bid_info call
    latest,          \* history: per field, the value of the last call naming it
    prev_df,         \* history: the table as the last call received it
    pdf_path,        \* the file handed to read_pdf_text_with_pages
    logged,          \* the diagnostics printed by log()
    amendment_files, \* the amendment files append_amendments has still to read
    df_amend,        \* the AmendmentTracker records built so far
    args,            \* main: the parsed command line and the files it names
    rules,           \* main: the loaded rule set
    clones,          \* main: the cloned template sheets
    bid_info_values, \* main: the header values, field -> value
    written,         \* main: the sheets of the written workbook, name -> rows
    status           \* main: the exit status, or the exception that ended the run

renderVars == <<text, rx, value_expr, m, value>>
extractVars == <<pages, extractors, results, lastExt>>
upsertVars == <<bid_info_df, mapping, latest, prev_df>>
readerVars == <<pdf_path, logged>>
amendVars == <<amendment_files, df_amend>>
mainVars == <<args, rules, clones, bid_info_values, written, status>>

vars == <<pc, renderVars, extractVars, upsertVars, readerVars, amendVars, mainVars>>

-----------------------------------------------------------------------------
(* Texts *)

None == <<"<None>">>

WS == {" ", "\n"}

Digits == {"0", "1", "2", "3", "4", "5", "6", "7", "8", "9"}

Lower(c) ==
    CASE c = "A" -> "a" [] c = "C" -> "c" [] c = "D" -> "d" [] c = "E" -> "e"
      [] c = "M" -> "m" [] c = "N" -> "n" [] c = "U" -> "u" [] c = "W" -> "w"
      [] c = "T" -> "t" [] c = "I" -> "i" [] c = "R" -> "r" [] c = "G" -> "g"
      [] OTHER -> c

Slice(t, s, e) == [i \in 1..(e - s) |-> t[s + i]]

(* re.sub(r"\s+", " ", s): every maximal run of whitespace becomes one space *)
RECURSIVE CollapseWS(_)
CollapseWS(s) ==
    IF s = <<>> THEN <<>>
    ELSE IF Head(s) \in WS
         THEN IF Len(s) > 1 /\ s[2] \in WS
              THEN CollapseWS(Tail(s))
              ELSE <<" ">> \o CollapseWS(Tail(s))
         ELSE <<Head(s)>> \o CollapseWS(Tail(s))

(* str.strip() *)
RECURSIVE LStrip(_)
LStrip(s) == IF s # <<>> /\ Head(s) \in WS THEN LStrip(Tail(s)) ELSE s

RECURSIVE RStrip(_)
RStrip(s) ==
    IF s # <<>> /\ s[Len(s)] \in WS THEN RStrip(SubSeq(s, 1, Len(s) - 1)) ELSE s

Strip(s) == RStrip(LStrip(s))

clean_text(s) == IF s = None THEN <<>> ELSE Strip(CollapseWS(s))

-----------------------------------------------------------------------------
(* The re module: patterns, the matcher, search and finditer *)

Chr(c) == [k |-> "chr", c |-> c]
Cls(S) == [k |-> "cls", s |-> S]
Cat(a) == [k |-> "cat", a |-> a]
Alt(a) == [k |-> "alt", a |-> a]
Rep(r, lo, hi) == [k |-> "rep", r |-> r, lo |-> lo, hi |-> hi]   \* hi = -1: no limit
Grp(i, n, r) == [k |-> "grp", i |-> i, n |-> n, r |-> r]         \* n = "": unnamed

RECURSIVE Word(_)
Word(s) == IF s = <<>> THEN <<>> ELSE <<Chr(Head(s))>> \o Word(Tail(s))

Lit(s) == Cat(Word(s))

Max2(a, b) == IF a >= b THEN a ELSE b

RECURSIVE NumGroups(_)
RECURSIVE NumGroupsSeq(_)
NumGroups(r) ==
    CASE r.k = "grp" -> Max2(r.i, NumGroups(r.r))
      [] r.k = "rep" -> NumGroups(r.r)
      [] r.k \in {"cat", "alt"} -> NumGroupsSeq(r.a)
      [] OTHER -> 0
NumGroupsSeq(a) ==
    IF a = <<>> THEN 0 ELSE Max2(NumGroups(Head(a)), NumGroupsSeq(Tail(a)))

(* rx.groupindex as the set of <<name, index>> pairs *)
RECURSIVE GroupIndex(_)
RECURSIVE GroupIndexSeq(_)
GroupIndex(r) ==
    CASE r.k = "grp" -> (IF r.n = "" THEN {} ELSE {<<r.n, r.i>>}) \cup GroupIndex(r.r)
      [] r.k = "rep" -> GroupIndex(r.r)
      [] r.k \in {"cat", "alt"} -> GroupIndexSeq(r.a)
      [] OTHER -> {}
GroupIndexSeq(a) ==
    IF a = <<>> THEN {} ELSE GroupIndex(Head(a)) \cup GroupIndexSeq(Tail(a))

(* re.compile(pattern, flags): flags is the set of flag names in force *)
Compile(pattern, flags) ==
    [re |-> pattern, ic |-> "IGNORECASE" \in flags,
     groups |-> NumGroups(pattern), groupindex |-> GroupIndex(pattern)]

CharEq(c, d, ic) == IF ic THEN Lower(c) = Lower(d) ELSE c = d

NoSpan == <<-1, -1>>

(* The matcher: the ways node r matches t from offset p (0-based) with the
   captures c, as [e: end offset, c: captures], in the order tried. *)
RECURSIVE M(_, _, _, _, _)
RECURSIVE MEach(_, _, _, _, _)
RECURSIVE MAlt(_, _, _, _, _, _)
RECURSIVE MRep(_, _, _, _, _, _)
RECURSIVE MRepEach(_, _, _, _, _, _, _)
RECURSIVE MCat(_, _, _, _, _)
RECURSIVE SetGroup(_, _, _)
M(r, t, p, c, ic) ==
    CASE r.k = "chr" ->
           IF p < Len(t) /\ CharEq(t[p + 1], r.c, ic)
           THEN <<[e |-> p + 1, c |-> c]>> ELSE <<>>
      [] r.k = "cls" ->
           IF p < Len(t) /\ t[p + 1] \in r.s
           THEN <<[e |-> p + 1, c |-> c]>> ELSE <<>>
      [] r.k = "cat" -> MCat(r.a, 1, t, <<[e |-> p, c |-> c]>>, ic)
      [] r.k = "alt" -> MAlt(r.a, 1, t, p, c, ic)
      [] r.k = "rep" -> MRep(r, 0, t, p, c, ic)
      [] r.k = "grp" -> SetGroup(r.i, p, M(r.r, t, p, c, ic))
SetGroup(i, p, sts) ==
    IF sts = <<>> THEN <<>>
    ELSE <<[e |-> Head(sts).e, c |-> [Head(sts).c EXCEPT ![i] = <<p, Head(sts).e>>]]>>
         \o SetGroup(i, p, Tail(sts))
MEach(r, t, sts, j, ic) ==
    IF j > Len(sts) THEN <<>>
    ELSE M(r, t, sts[j].e, sts[j].c, ic) \o MEach(r, t, sts, j + 1, ic)
MCat(a, i, t, sts, ic) ==
    IF i > Len(a) \/ sts = <<>> THEN sts
    ELSE MCat(a, i + 1, t, MEach(a[i], t, sts, 1, ic), ic)
MAlt(a, i, t, p, c, ic) ==
    IF i > Len(a) THEN <<>>
    ELSE M(a[i], t, p, c, ic) \o MAlt(a, i + 1, t, p, c, ic)
MRepEach(r, n, t, p, sts, j, ic) ==
    IF j > Len(sts) THEN <<>>
    ELSE (IF sts[j].e > p THEN MRep(r, n + 1, t, sts[j].e, sts[j].c, ic) ELSE <<>>)
         \o MRepEach(r, n, t, p, sts, j + 1, ic)
MRep(r, n, t, p, c, ic) ==
    (IF r.hi = -1 \/ n < r.hi
     THEN MRepEach(r, n, t, p, M(r.r, t, p, c, ic), 1, ic) ELSE <<>>)
    \o (IF n >= r.lo THEN <<[e |-> p, c |-> c]>> ELSE <<>>)

NoMatch == [ok |-> FALSE, s |-> 0, e |-> 0, g0 |-> <<>>, groups |-> <<>>, gd |-> <<>>]

(* The re.Match of a successful attempt: m.start(), m.end(), m.group(0),
   m.groups() and m.groupdict() (a function of the group names). *)
MkMatch(crx, t, p, st) ==
    LET grp(i) == IF st.c[i] = NoSpan THEN None ELSE Slice(t, st.c[i][1], st.c[i][2])
    IN [ok |-> TRUE, s |-> p, e |-> st.e, g0 |-> Slice(t, p, st.e),
        groups |-> [i \in 1..crx.groups |-> grp(i)],
        gd |-> [n \in {ni[1] : ni \in crx.groupindex} |->
                  grp((CHOOSE ni \in crx.groupindex : ni[1] = n)[2])]]

RECURSIVE FirstNonEmpty(_, _, _)
FirstNonEmpty(sts, p, j) ==
    IF j > Len(sts) THEN 0
    ELSE IF sts[j].e > p THEN j ELSE FirstNonEmpty(sts, p, j + 1)

(* The matcher's scan from offset p; an empty match at offset `bar' is not
   accepted (finditer after an empty match; bar = -1 bars nothing). *)
RECURSIVE Scan(_, _, _, _)
Scan(crx, t, p, bar) ==
    IF p > Len(t) THEN NoMatch
    ELSE LET sts == M(crx.re, t, p, [i \in 1..crx.groups |-> NoSpan], crx.ic)
             j == IF p = bar THEN FirstNonEmpty(sts, p, 1)
                  ELSE IF sts = <<>> THEN 0 ELSE 1
         IN IF j = 0 THEN Scan(crx, t, p + 1, bar) ELSE MkMatch(crx, t, p, sts[j])

(* rx.search(text) *)
Search(crx, t) == Scan(crx, t, 0, -1)

(* list(rx.finditer(text)) *)
RECURSIVE FindIterFrom(_, _, _, _)
FindIterFrom(crx, t, p, bar) ==
    LET mm == Scan(crx, t, p, bar)
    IN IF ~mm.ok THEN <<>>
       ELSE <<mm>> \o FindIterFrom(crx, t, mm.e, IF mm.e = mm.s THEN mm.e ELSE -1)

FindIter(crx, t) == FindIterFrom(crx, t, 0, -1)

-----------------------------------------------------------------------------
(* str.format *)

Lt(s) == [t |-> "lit", lit |-> s, key |-> ""]      \* literal text
Fld(key) == [t |-> "fld", lit |-> <<>>, key |-> key] \* {key}; {} is Fld("")
BadBrace == [t |-> "bad", lit |-> <<>>, key |-> ""]  \* a single { or }

DigitStr == <<"0", "1", "2", "3", "4", "5", "6", "7", "8", "9">>

(* str(i) and int(s) for one-digit numbers *)
Str(i) == DigitStr[i + 1]
IsIndex(key) == \E i \in 1..Len(DigitStr) : DigitStr[i] = key
IndexOf(key) == (CHOOSE i \in 1..Len(DigitStr) : DigitStr[i] = key) - 1

FmtRaise == [ok |-> FALSE, v |-> <<>>]

(* The fields of a format string resolved left to right: a number indexes
   the positional arguments, {} takes the next one, a name is a keyword. *)
RECURSIVE Format(_, _, _, _)
Format(parts, auto, fargs, kwargs) ==
    IF parts = <<>> THEN [ok |-> TRUE, v |-> <<>>]
    ELSE LET p == Head(parts)
             pos == IF p.key = "" THEN auto ELSE IF IsIndex(p.key) THEN IndexOf(p.key) ELSE -1
             one == CASE p.t = "lit" -> [ok |-> TRUE, v |-> p.lit]
                      [] p.t = "bad" -> FmtRaise                       \* ValueError
                      [] p.t = "fld" /\ pos >= 0 ->
                           IF pos < Len(fargs) THEN [ok |-> TRUE, v |-> fargs[pos + 1]]
                           ELSE FmtRaise                               \* IndexError
                      [] OTHER ->
                           IF p.key \in DOMAIN kwargs THEN [ok |-> TRUE, v |-> kwargs[p.key]]
                           ELSE FmtRaise                               \* KeyError
             rest == Format(Tail(parts), IF p.t = "fld" /\ p.key = "" THEN auto + 1 ELSE auto,
                            fargs, kwargs)
         IN IF one.ok /\ rest.ok THEN [ok |-> TRUE, v |-> one.v \o rest.v] ELSE FmtRaise

(* value_expr.format with positional arguments fargs and the keyword
   mappings d1 and d2, both unpacked: a keyword given by both mappings is
   a TypeError of the call itself, before any field is resolved. *)
CallFormat(parts, fargs, d1, d2) ==
    IF DOMAIN d1 \cap DOMAIN d2 # {} THEN FmtRaise
    ELSE Format(parts, 0, fargs, d1 @@ d2)

-----------------------------------------------------------------------------
(* render_value *)

(* fmt_dict: str(i) -> cleaned group i+1, then name -> cleaned named group *)
FmtDict(mm) ==
    LET positional == {Str(i - 1) : i \in 1..Len(mm.groups)}
    IN [k \in positional \cup DOMAIN mm.gd |->
          IF k \in DOMAIN mm.gd THEN clean_text(mm.gd[k])
          ELSE clean_text(mm.groups[IndexOf(k) + 1])]

(* Faulty variant of Fallback: always the full match *)
FallbackFullMatch(mm) == clean_text(mm.g0)

(* the except branch: first group or full match *)
Fallback(mm) == clean_text(IF mm.groups # <<>> THEN mm.groups[1] ELSE mm.g0)

render_value(ve, mm) ==
    LET fmt_dict == FmtDict(mm)
        r == CallFormat(ve, <<>>, fmt_dict, [k \in DOMAIN fmt_dict |-> fmt_dict[k]])
    IN IF r.ok THEN r.v ELSE Fallback(mm)

-----------------------------------------------------------------------------
(* Values the variables of an operation hold while another one runs *)

RenderIdle == text = <<>> /\ rx = <<>> /\ value_expr = <<>> /\ m = NoMatch /\ value = None
ExtractIdle == pages = <<>> /\ extractors = <<>> /\ results = <<>> /\ lastExt = <<>>
UpsertIdle == bid_info_df = <<>> /\ mapping = <<>> /\ latest = <<>> /\ prev_df = <<>>
ReaderIdle == pdf_path = <<>> /\ logged = <<>>
AmendIdle == amendment_files = <<>> /\ df_amend = <<>>
MainIdle ==
    /\ args = <<>> /\ rules = <<>> /\ clones = <<>>
    /\ bid_info_values = <<>> /\ written = <<>> /\ status = ""

-----------------------------------------------------------------------------
(* Rendering one match: rx.search(text), then render_value(value_expr, m) *)

MW == <<"M", "W">>
NumberRe == Rep(Cls(Digits), 1, -1)      \* \d+
SpacesRe == Rep(Cls(WS), 1, -1)          \* \s+

RenderTexts ==
    { <<"2", "5", "0">>,
      <<"c", "a", "p", " ", "2", "5", "0", " ", " ", "\n", " ", "M", "W">>,
      <<"M", "W">>,
      <<"x", " ", "m", "w">>,
      <<"a", "b", "c">> }

RenderPatterns ==
    { Grp(1, "", NumberRe),                                                \* (\d+)
      Cat(<<Grp(1, "cap", Cat(<<NumberRe, SpacesRe>>)), Grp(2, "", Lit(MW))>>),
                                                                           \* (?P<cap>\d+\s+)(MW)
      Lit(MW),                                                             \* MW
      Cat(<<NumberRe, SpacesRe, Lit(MW)>>),                                \* \d+\s+MW
      Alt(<<Grp(1, "", Chr("x")), Lit(MW)>>) }                             \* (x)|MW

ValueExprs ==
    { <<Fld("0"), Lt(<<" ", "M", "W">>)>>,       \* "{0} MW"
      <<Fld("cap"), Lt(<<" ">>), Fld("1")>>,     \* "{cap} {1}"
      <<Fld("1")>>,                              \* "{1}"
      <<Fld("2")>>,                              \* "{2}"
      <<Lt(<<"M", "W">>)>>,                      \* "MW"
      <<Lt(<<"M", "W">>), BadBrace>>,            \* "MW{"
      <<Fld("")>>,                               \* "{}"
      <<Fld("unit")>> }                          \* "{unit}"

InitRender ==
    /\ pc = "search"
    /\ text \in RenderTexts
    /\ rx \in {Compile(p, {"IGNORECASE"}) : p \in RenderPatterns}
    /\ value_expr \in ValueExprs
    /\ m = NoMatch
    /\ value = None
    /\ ExtractIdle /\ UpsertIdle /\ ReaderIdle /\ AmendIdle /\ MainIdle

RSearch ==
    /\ pc = "search"
    /\ m' = Search(rx, text)
    /\ pc' = IF m'.ok THEN "render" ELSE "nomatch"
    /\ UNCHANGED <<text, rx, value_expr, value>>
    /\ UNCHANGED <<extractVars, upsertVars, readerVars, amendVars, mainVars>>

RRender ==
    /\ pc = "render"
    /\ value' = render_value(value_expr, m)
    /\ pc' = "rendered"
    /\ UNCHANGED <<text, rx, value_expr, m>>
    /\ UNCHANGED <<extractVars, upsertVars, readerVars, amendVars, mainVars>>

NextRender == RSearch \/ RRender

SpecRender == InitRender /\ [][NextRender]_vars

(* What a template asks for, read off the template alone *)
FieldKeys(ve) == {ve[i].key : i \in {j \in 1..Len(ve) : ve[j].t = "fld"}}
WellFormed(ve) == \A i \in 1..Len(ve) : ve[i].t # "bad"

(* The group a placeholder names: by zero-based index or by name *)
HasGroup(mm, key) ==
    \/ IsIndex(key) /\ IndexOf(key) < Len(mm.groups)
    \/ key \in DOMAIN mm.gd
GroupText(mm, key) ==
    IF key \in DOMAIN mm.gd THEN mm.gd[key] ELSE mm.groups[IndexOf(key) + 1]

RECURSIVE Substituted(_, _)
Substituted(ve, mm) ==
    IF ve = <<>> THEN <<>>
    ELSE (IF Head(ve).t = "lit" THEN Head(ve).lit
          ELSE clean_text(GroupText(mm, Head(ve).key)))
         \o Substituted(Tail(ve), mm)

(* C2: when every placeholder of the template names a group the match has,
   render_value returns the template with each placeholder replaced by the
   cleaned text of that group ("{0} MW" on a group "250" gives "250 MW"). *)
C2_RenderSubstitutesGroups ==
    (pc = "rendered" /\ WellFormed(value_expr)
       /\ \A k \in FieldKeys(value_expr) : HasGroup(m, k))
    => value = Substituted(value_expr, m)

(* Whether resolving the template against the match's groups fails *)
ResolutionFails(ve, mm) ==
    ~CallFormat(ve, <<>>, FmtDict(mm), FmtDict(mm)).ok

(* C3: when the template's resolution fails, render_value returns the cleaned
   text of the first captured group if the pattern has a capturing group, and
   the cleaned text of the whole matched span otherwise. *)
C3_FallbackOnFailedResolution ==
    (pc = "rendered" /\ ResolutionFails(value_expr, m))
    => value = IF rx.groups >= 1
               THEN Strip(CollapseWS(IF m.groups[1] = None THEN <<>> ELSE m.groups[1]))
               ELSE Strip(CollapseWS(m.g0))

(* C3 happens: a template naming a group the match lacks, rendered once
   against a match with a group whose text needed cleaning and once against
   a match of a pattern without groups. *)
C3_Witness ==
    /\ pc = "rendered"
    /\ \E k \in FieldKeys(value_expr) : ~HasGroup(m, k)
    /\ ResolutionFails(value_expr, m)
    /\ \/ rx.groups >= 1 /\ m.groups[1] # None /\ value # m.groups[1]
                         /\ value = clean_text(m.groups[1])
       \/ rx.groups = 0 /\ value # m.g0 /\ value = clean_text(m.g0)

-----------------------------------------------------------------------------
(* find_first, find_all and run_extractors *)

(* Faulty variant of FirstHit: the last page with a match wins *)
RECURSIVE FirstHitLastPage(_, _)
FirstHitLastPage(crx, pgs) ==
    IF pgs = <<>> THEN [pn |-> 0, m |-> NoMatch]
    ELSE LET mm == Search(crx, pgs[Len(pgs)].text)
         IN IF mm.ok THEN [pn |-> pgs[Len(pgs)].pn, m |-> mm]
            ELSE FirstHitLastPage(crx, SubSeq(pgs, 1, Len(pgs) - 1))

(* find_first: (pn, m) of the first page rx.search matches, else (None, None) *)
RECURSIVE FirstHit(_, _)
FirstHit(crx, pgs) ==
    IF pgs = <<>> THEN [pn |-> 0, m |-> NoMatch]
    ELSE LET mm == Search(crx, Head(pgs).text)
         IN IF mm.ok THEN [pn |-> Head(pgs).pn, m |-> mm] ELSE FirstHit(crx, Tail(pgs))

find_first(pattern, pgs, flags) == FirstHit(Compile(pattern, flags), pgs)

(* find_all: (pn, m) for every m of rx.finditer, page after page *)
RECURSIVE PageHits(_, _)
PageHits(pn, ms) ==
    IF ms = <<>> THEN <<>> ELSE <<[pn |-> pn, m |-> Head(ms)]>> \o PageHits(pn, Tail(ms))

(* Faulty variant of AllHits: one match per page, as rx.search would give *)
RECURSIVE AllHitsOnePerPage(_, _)
AllHitsOnePerPage(crx, pgs) ==
    IF pgs = <<>> THEN <<>>
    ELSE LET mm == Search(crx, Head(pgs).text)
         IN (IF mm.ok THEN <<[pn |-> Head(pgs).pn, m |-> mm]>> ELSE <<>>)
            \o AllHitsOnePerPage(crx, Tail(pgs))

RECURSIVE AllHits(_, _)
AllHits(crx, pgs) ==
    IF pgs = <<>> THEN <<>>
    ELSE PageHits(Head(pgs).pn, FindIter(crx, Head(pgs).text)) \o AllHits(crx, Tail(pgs))

find_all(pattern, pgs, flags) == AllHits(Compile(pattern, flags), pgs)

(* dict.get(key, default) *)
Get(d, key, default) == IF key \in DOMAIN d THEN d[key] ELSE default

(* fl |= getattr(re, f, 0) over flags_list: a name re does not have adds nothing *)
ReFlags == {"IGNORECASE", "MULTILINE", "DOTALL"}
FlagsOf(flags_list) == {flags_list[i] : i \in 1..Len(flags_list)} \cap ReFlags

TagRow(section, clause, parameter, val, unit, notes, pn) ==
    [Section |-> section, ClauseRef |-> clause, Parameter |-> parameter,
     Value |-> val, Unit |-> unit, Notes |-> notes, SourcePage |-> pn]

RECURSIVE HitRows(_, _)
HitRows(ext, hits) ==
    IF hits = <<>> THEN <<>>
    ELSE <<TagRow(Get(ext, "section", "General"), Get(ext, "clause", ""),
                  Get(ext, "parameter", ""),
                  render_value(Get(ext, "value_expr", <<Fld("0")>>), Head(hits).m),
                  Get(ext, "unit", ""), Get(ext, "notes", ""), Head(hits).pn)>>
         \o HitRows(ext, Tail(hits))

(* The body of run_extractors' loop: the rows one directive appends *)
ExtractorRows(pgs, ext) ==
    LET pattern == Get(ext, "pattern", Cat(<<>>))
        fl == FlagsOf(Get(ext, "flags", <<"IGNORECASE">>))
    IN IF Get(ext, "mode", "first") = "all"
       THEN HitRows(ext, find_all(pattern, pgs, fl))
       ELSE LET hit == find_first(pattern, pgs, fl)
            IN IF hit.m.ok THEN HitRows(ext, <<hit>>) ELSE <<>>

RECURSIVE run_extractors(_, _)
run_extractors(pgs, exts) ==
    IF exts = <<>> THEN <<>>
    ELSE ExtractorRows(pgs, Head(exts)) \o run_extractors(pgs, Tail(exts))

-----------------------------------------------------------------------------
(* run_extractors on a page sequence, one directive per step *)

MaxPages == 2
MaxExt == 1

PageTexts ==
    { <<>>,
      <<"M", "W">>,
      <<"1", "0", " ", "M", "W">>,
      <<"2", "5", " ", "M", "W", " ", "3", "0", " ", "m", "w">> }

(* Page sequences as main collects them: each file's pages numbered from 1 *)
PageSeqs ==
    { ps \in UNION {[1..n -> [pn : 1..MaxPages, text : PageTexts]] : n \in 0..MaxPages} :
        \A i \in 1..Len(ps) :
            IF i = 1 THEN ps[i].pn = 1 ELSE ps[i].pn \in {1, ps[i - 1].pn + 1} }

CapacityRe == Cat(<<Grp(1, "", NumberRe), Rep(Cls(WS), 0, -1), Lit(MW)>>)   \* (\d+)\s*MW

Directives ==
    { [parameter |-> "Capacity", mode |-> md, pattern |-> pt, value_expr |-> ve, flags |-> fl] :
        md \in {"first", "all"}, pt \in {CapacityRe, Lit(MW)},
        ve \in {<<Fld("0"), Lt(<<" ", "M", "W">>)>>}, fl \in {<<"IGNORECASE">>, <<"ASCII_ONLY">>} }
    \cup { [parameter |-> "Defaults"],
           [parameter |-> "Anywhere", mode |-> "all", section |-> "Scope", unit |-> "MW"] }

ExtractorLists == UNION {[1..n -> Directives] : n \in 0..MaxExt}

InitExtract ==
    /\ pc = "extract"
    /\ pages \in PageSeqs
    /\ extractors \in ExtractorLists
    /\ results = <<>>
    /\ lastExt = <<>>
    /\ RenderIdle /\ UpsertIdle /\ ReaderIdle /\ AmendIdle /\ MainIdle

ExtractStep ==
    /\ pc = "extract"
    /\ extractors # <<>>
    /\ results' = results \o ExtractorRows(pages, Head(extractors))
    /\ lastExt' = <<[ext |-> Head(extractors), base |-> Len(results)]>>
    /\ extractors' = Tail(extractors)
    /\ UNCHANGED <<pc, pages>>
    /\ UNCHANGED <<renderVars, upsertVars, readerVars, amendVars, mainVars>>

ExtractAll ==
    /\ extractors # <<>>
    /\ Get(Head(extractors), "mode", "first") = "all"
    /\ ExtractStep

ExtractFirst ==
    /\ extractors # <<>>
    /\ Get(Head(extractors), "mode", "first") # "all"
    /\ ExtractStep

ExtractReturn ==
    /\ pc = "extract"
    /\ extractors = <<>>
    /\ pc' = "returned"
    /\ UNCHANGED <<pages, extractors, results, lastExt>>
    /\ UNCHANGED <<renderVars, upsertVars, readerVars, amendVars, mainVars>>

NextExtract == ExtractAll \/ ExtractFirst \/ ExtractReturn

SpecExtract == InitExtract /\ [][NextExtract]_vars

(* The directive applied last, the rows it appended, and its matches page
   by page as the regex engine enumerates them *)
LastDirective == lastExt[1].ext
NewRows == SubSeq(results, lastExt[1].base + 1, Len(results))
ModeOf(ext) == Get(ext, "mode", "first")
RxOf(ext) == Compile(Get(ext, "pattern", Cat(<<>>)), FlagsOf(Get(ext, "flags", <<"IGNORECASE">>)))
MatchesOn(ext, i) == FindIter(RxOf(ext), pages[i].text)
ValueFor(ext, mm) == render_value(Get(ext, "value_expr", <<Fld("0")>>), mm)

RECURSIVE MatchCountUpTo(_, _)
MatchCountUpTo(ext, i) ==
    IF i = 0 THEN 0 ELSE MatchCountUpTo(ext, i - 1) + Len(MatchesOn(ext, i))

(* C4: a directive in mode "first" appends no row when no page has a match,
   and otherwise exactly one row, built from the leftmost match of the
   earliest page (in sequence order) that has a match, with that page's
   number as SourcePage. *)
C4_FirstModeEarliestPage ==
    (lastExt # <<>> /\ ModeOf(LastDirective) = "first") =>
        LET hitPages == {i \in 1..Len(pages) : MatchesOn(LastDirective, i) # <<>>}
        IN IF hitPages = {} THEN NewRows = <<>>
           ELSE LET i == CHOOSE h \in hitPages : \A j \in hitPages : h <= j
                IN /\ Len(NewRows) = 1
                   /\ NewRows[1].SourcePage = pages[i].pn
                   /\ NewRows[1].Value = ValueFor(LastDirective, MatchesOn(LastDirective, i)[1])

(* C4 happens: two pages with matches, the earlier one with several, and the
   one row carries the earlier page's number and its leftmost match. *)
C4_Witness ==
    /\ lastExt # <<>> /\ ModeOf(LastDirective) = "first"
    /\ Len(pages) >= 2
    /\ Len(MatchesOn(LastDirective, 1)) >= 2
    /\ Len(MatchesOn(LastDirective, 2)) >= 1
    /\ pages[2].pn # pages[1].pn
    /\ Len(NewRows) = 1
    /\ NewRows[1].SourcePage = pages[1].pn
    /\ NewRows[1].Value # ValueFor(LastDirective, MatchesOn(LastDirective, 1)[2])

(* C5: a directive in mode "all" appends one row per match, in the order the
   matches are enumerated page by page and left to right within a page: as
   many rows as there are matches on all pages, each with the number of the
   page its match is on. *)
C5_AllModeRowPerMatch ==
    (lastExt # <<>> /\ ModeOf(LastDirective) = "all") =>
        /\ Len(NewRows) = MatchCountUpTo(LastDirective, Len(pages))
        /\ \A i \in 1..Len(pages) : \A k \in 1..Len(MatchesOn(LastDirective, i)) :
               LET row == NewRows[MatchCountUpTo(LastDirective, i - 1) + k]
               IN /\ row.SourcePage = pages[i].pn
                  /\ row.Value = ValueFor(LastDirective, MatchesOn(LastDirective, i)[k])

(* C5 happens: several matches on one page and another on a later page with
   a different number. *)
C5_Witness ==
    /\ lastExt # <<>> /\ ModeOf(LastDirective) = "all"
    /\ Len(pages) >= 2
    /\ Len(MatchesOn(LastDirective, 1)) >= 2
    /\ Len(MatchesOn(LastDirective, 2)) >= 1
    /\ pages[2].pn # pages[1].pn
    /\ Len(NewRows) >= 3
    /\ NewRows[1].SourcePage = pages[1].pn
    /\ NewRows[Len(NewRows)].SourcePage = pages[2].pn

-----------------------------------------------------------------------------
(* upsert_bid_info.  The table is the sequence of its rows in index order;
   a mapping is the sequence of its items in dict order, its keys distinct. *)

HasField(df, k) == \E i \in 1..Len(df) : df[i].Field = k

(* Faulty variant of UpsertItem: the row is always appended *)
UpsertItemAlwaysAppend(df, k, v) == Append(df, [Field |-> k, Value |-> v])

(* One turn of the loop: set Value where Field == k, else add a row at the end *)
UpsertItem(df, k, v) ==
    IF HasField(df, k)
    THEN [i \in 1..Len(df) |-> IF df[i].Field = k THEN [df[i] EXCEPT !.Value = v] ELSE df[i]]
    ELSE Append(df, [Field |-> k, Value |-> v])

RECURSIVE UpsertItems(_, _)
UpsertItems(df, items) ==
    IF items = <<>> THEN df
    ELSE UpsertItems(UpsertItem(df, Head(items).k, Head(items).v), Tail(items))

upsert_bid_info(df, items) ==
    UpsertItems(IF df = <<>> THEN <<>> ELSE df, items)

-----------------------------------------------------------------------------
(* A sequence of upsert_bid_info calls on a table that starts empty *)

FieldNames == {"Tender", "Bidder", "Capacity"}
FieldValues == {<<>>, <<"A">>}

(* dicts over FieldNames: every order of every subset of the keys *)
Mappings ==
    { mp \in UNION {[1..n -> [k : FieldNames, v : FieldValues]] : n \in 0..Cardinality(FieldNames)} :
        \A i, j \in 1..Len(mp) : i # j => mp[i].k # mp[j].k }

Keys(items) == {items[i].k : i \in 1..Len(items)}
ItemValue(items, k) == (CHOOSE i \in 1..Len(items) : items[i].k = k)

InitUpsert ==
    /\ pc = "upsert"
    /\ bid_info_df = <<>>
    /\ mapping = <<>>
    /\ latest = <<>>
    /\ prev_df = <<>>
    /\ RenderIdle /\ ExtractIdle /\ ReaderIdle /\ AmendIdle /\ MainIdle

UpsertCall ==
    /\ pc = "upsert"
    /\ \E mp \in Mappings :
          /\ mapping' = mp
          /\ bid_info_df' = upsert_bid_info(bid_info_df, mp)
          /\ latest' = [f \in DOMAIN latest \cup Keys(mp) |->
                           IF f \in Keys(mp) THEN mp[ItemValue(mp, f)].v ELSE latest[f]]
    /\ prev_df' = bid_info_df
    /\ UNCHANGED pc
    /\ UNCHANGED <<renderVars, extractVars, readerVars, amendVars, mainVars>>

NextUpsert == UpsertCall

SpecUpsert == InitUpsert /\ [][NextUpsert]_vars

RowsOf(df, f) == {i \in 1..Len(df) : df[i].Field = f}

(* C6: after any sequence of calls from an empty table, every field named so
   far has exactly one row, holding the value of the most recent call that
   named it; no other rows exist; and a row of a field the last call did not
   name is as it was before that call. *)
C6_UpsertKeepsOneRowPerField ==
    /\ \A f \in DOMAIN latest :
          /\ Cardinality(RowsOf(bid_info_df, f)) = 1
          /\ \A i \in RowsOf(bid_info_df, f) : bid_info_df[i].Value = latest[f]
    /\ \A i \in 1..Len(bid_info_df) : bid_info_df[i].Field \in DOMAIN latest
    /\ \A i \in 1..Len(prev_df) :
          prev_df[i].Field \notin Keys(mapping) => bid_info_df[i] = prev_df[i]

(* C6 happens: the last call named a field that had a row with another
   value, and left alone a row of a field it did not name. *)
C6_Witness ==
    /\ \E i \in 1..Len(prev_df) :
          /\ prev_df[i].Field \in Keys(mapping)
          /\ prev_df[i].Value # mapping[ItemValue(mapping, prev_df[i].Field)].v
          /\ Cardinality(RowsOf(bid_info_df, prev_df[i].Field)) = 1
          /\ bid_info_df[i].Value = mapping[ItemValue(mapping, prev_df[i].Field)].v
    /\ \E i \in 1..Len(prev_df) :
          prev_df[i].Field \notin Keys(mapping) /\ bid_info_df[i] = prev_df[i]

-----------------------------------------------------------------------------
(* read_pdf_text_with_pages.  A file is [name, opens, pgs]: whether
   PdfReader(path) and the walk of reader.pages succeed, and per page what
   page.extract_text() does: [raises, text], text being None or a text.
   PdfReader resolves the page tree before the first page is handed out, so
   an exception of the outer try leaves `pages' empty. *)

(* Faulty variant of PageEntries: a page whose extraction fails is left out *)
RECURSIVE PageEntriesSkippingFailed(_, _)
PageEntriesSkippingFailed(pgs, i) ==
    IF i >= Len(pgs) THEN <<>>
    ELSE (IF pgs[i + 1].raises THEN <<>>
          ELSE <<[pn |-> i + 1,
                  text |-> IF pgs[i + 1].text \in {None, <<>>} THEN <<>> ELSE pgs[i + 1].text]>>)
         \o PageEntriesSkippingFailed(pgs, i + 1)

(* The loop over enumerate(reader.pages) from index i on *)
RECURSIVE PageEntries(_, _)
PageEntries(pgs, i) ==
    IF i >= Len(pgs) THEN <<>>
    ELSE LET t == IF pgs[i + 1].raises THEN <<>>
                  ELSE IF pgs[i + 1].text \in {None, <<>>} THEN <<>> ELSE pgs[i + 1].text
         IN <<[pn |-> i + 1, text |-> t]>> \o PageEntries(pgs, i + 1)

read_pdf_text_with_pages(f) ==
    IF f.opens THEN [pages |-> PageEntries(f.pgs, 0), log |-> <<>>]
    ELSE [pages |-> <<>>, log |-> <<<<"ERROR reading", f.name>>>>]

-----------------------------------------------------------------------------
(* Reading one file *)

PageOutcomes ==
    { [raises |-> TRUE, text |-> None],
      [raises |-> FALSE, text |-> None],
      [raises |-> FALSE, text |-> <<>>],
      [raises |-> FALSE, text |-> <<"M", "W">>],
      [raises |-> FALSE, text |-> <<"1", "0", " ", "\n", "M", "W">>] }

PdfFiles ==
    [name : {"rfs.pdf", "itb.pdf"}, opens : BOOLEAN,
     pgs : UNION {[1..n -> PageOutcomes] : n \in 0..MaxPages}]

InitReader ==
    /\ pc = "read"
    /\ pdf_path \in PdfFiles
    /\ logged = <<>>
    /\ pages = <<>>
    /\ extractors = <<>> /\ results = <<>> /\ lastExt = <<>>
    /\ RenderIdle /\ UpsertIdle /\ AmendIdle /\ MainIdle

ReadPdf ==
    /\ pc = "read"
    /\ pages' = read_pdf_text_with_pages(pdf_path).pages
    /\ logged' = logged \o read_pdf_text_with_pages(pdf_path).log
    /\ pc' = "returned"
    /\ UNCHANGED <<pdf_path, extractors, results, lastExt>>
    /\ UNCHANGED <<renderVars, upsertVars, amendVars, mainVars>>

NextReader == ReadPdf

SpecReader == InitReader /\ [][NextReader]_vars

(* C7: read_pdf_text_with_pages returns without raising; for a file that
   cannot be opened or parsed it logs a diagnostic and returns no entries;
   for a readable file of n pages it returns n entries numbered 1..n in page
   order, the text of a page whose extraction fails or yields nothing being
   the empty string. *)
C7_ReaderIsBestEffort ==
    pc = "returned" =>
        IF ~pdf_path.opens
        THEN pages = <<>> /\ \E i \in 1..Len(logged) : logged[i][2] = pdf_path.name
        ELSE /\ Len(pages) = Len(pdf_path.pgs)
             /\ logged = <<>>
             /\ \A i \in 1..Len(pages) :
                   /\ pages[i].pn = i
                   /\ pages[i].text =
                        IF pdf_path.pgs[i].raises \/ pdf_path.pgs[i].text = None
                        THEN <<>> ELSE pdf_path.pgs[i].text

(* C7 happens: a readable file whose first page fails to extract and whose
   second page has text; both pages are returned, numbered 1 and 2. *)
C7_Witness ==
    /\ pc = "returned"
    /\ pdf_path.opens
    /\ Len(pdf_path.pgs) >= 2
    /\ pdf_path.pgs[1].raises
    /\ ~pdf_path.pgs[2].raises /\ pdf_path.pgs[2].text \notin {None, <<>>}
    /\ Len(pages) = Len(pdf_path.pgs)
    /\ pages[1] = [pn |-> 1, text |-> <<>>]
    /\ pages[2] = [pn |-> 2, text |-> pdf_path.pgs[2].text]

-----------------------------------------------------------------------------
(* append_amendments *)

OneOrTwoDigits == Rep(Cls(Digits), 1, 2)
DateSep == Cls({"-", "/", "."})

(* (\d{1,2}[-/\.]\d{1,2}[-/\.]\d{2,4}) *)
DateRe ==
    Grp(1, "", Cat(<<OneOrTwoDigits, DateSep, OneOrTwoDigits, DateSep, Rep(Cls(Digits), 2, 4)>>))

Corrigendum == <<"C", "o", "r", "r", "i", "g", "e", "n", "d", "u", "m">>
Addendum == <<"A", "d", "d", "e", "n", "d", "u", "m">>
Amendment == <<"A", "m", "e", "n", "d", "m", "e", "n", "t">>

(* (Corrigendum|Addendum|Amendment) *)
LabelRe == Grp(1, "", Alt(<<Lit(Corrigendum), Lit(Addendum), Lit(Amendment)>>))

(* label = "Corrigendum/Addendum" *)
DefaultLabel == Corrigendum \o <<"/">> \o Addendum

(* Faulty variant of AmendmentRow: no label found leaves AmendmentType empty *)
AmendmentRowEmptyLabel(f) ==
    LET pgs == read_pdf_text_with_pages(f).pages
        hit == find_first(DateRe, pgs, {"IGNORECASE"})
        hit2 == find_first(LabelRe, pgs, {"IGNORECASE"})
    IN [AmendmentType |-> IF hit2.m.ok THEN clean_text(hit2.m.groups[1]) ELSE <<>>,
        FileName |-> f.name,
        Date |-> IF hit.m.ok THEN hit.m.groups[1] ELSE <<>>,
        Notes |-> "",
        Pages |-> Len(pgs)]

(* The body of append_amendments' loop: the record of one file *)
AmendmentRow(f) ==
    LET pgs == read_pdf_text_with_pages(f).pages
        hit == find_first(DateRe, pgs, {"IGNORECASE"})
        date_found == IF hit.m.ok THEN hit.m.groups[1] ELSE <<>>
        hit2 == find_first(LabelRe, pgs, {"IGNORECASE"})
        label == IF hit2.m.ok THEN clean_text(hit2.m.groups[1]) ELSE DefaultLabel
    IN [AmendmentType |-> label, FileName |-> f.name, Date |-> date_found,
        Notes |-> "", Pages |-> Len(pgs)]

RECURSIVE append_amendments(_)
append_amendments(files) ==
    IF files = <<>> THEN <<>>
    ELSE <<AmendmentRow(Head(files))>> \o append_amendments(Tail(files))

RECURSIVE ReadLogs(_)
ReadLogs(files) ==
    IF files = <<>> THEN <<>>
    ELSE read_pdf_text_with_pages(Head(files)).log \o ReadLogs(Tail(files))

-----------------------------------------------------------------------------
(* append_amendments on a list of files, one file per step *)

MaxAmend == 2

Date12May == <<"1", "2", "/", "0", "5", "/", "2", "0", "2", "4">>

(* Page texts with a label and a date *)
DatedTexts ==
    { Addendum \o <<" ">> \o Date12May,                                   \* Addendum 12/05/2024
      <<"A", "D", "D", "E", "N", "D", "U", "M", "\n">> \o Date12May,      \* ADDENDUM\n12/05/2024
      Corrigendum \o <<" ", "1", "-", "2", "-", "2", "3">> }              \* Corrigendum 1-2-23

AmendTexts == DatedTexts \cup {<<"2", "5", " ", "M", "W">>}               \* 25 MW

(* The files of one call have distinct names, the i-th being AmendNames[i] *)
AmendNames == <<"add1.pdf", "corr2.pdf", "amd3.pdf", "amd4.pdf">>

AmendPage(t) == [raises |-> FALSE, text |-> t]

(* What a file holds: it cannot be opened, or it has no page, one page, or
   two pages that each carry a label and a date *)
AmendContents ==
    {[opens |-> FALSE, pgs |-> <<>>]}
    \cup {[opens |-> TRUE, pgs |-> <<>>]}
    \cup {[opens |-> TRUE, pgs |-> <<AmendPage(a)>>] : a \in AmendTexts}
    \cup {[opens |-> TRUE, pgs |-> <<AmendPage(a), AmendPage(b)>>] : a, b \in DatedTexts}

AmendFiles ==
    UNION { { [i \in 1..n |-> [name |-> AmendNames[i], opens |-> cs[i].opens, pgs |-> cs[i].pgs]] :
                cs \in [1..n -> AmendContents] } : n \in 0..MaxAmend }

InitAmend ==
    /\ pc = "amend"
    /\ amendment_files \in AmendFiles
    /\ df_amend = <<>>
    /\ logged = <<>>
    /\ pdf_path = <<>>
    /\ RenderIdle /\ ExtractIdle /\ UpsertIdle /\ MainIdle

AmendFile ==
    /\ pc = "amend"
    /\ Len(df_amend) < Len(amendment_files)
    /\ LET f == amendment_files[Len(df_amend) + 1]
       IN /\ df_amend' = Append(df_amend, AmendmentRow(f))
          /\ logged' = logged \o read_pdf_text_with_pages(f).log
    /\ UNCHANGED <<pc, amendment_files, pdf_path>>
    /\ UNCHANGED <<renderVars, extractVars, upsertVars, mainVars>>

AmendReturn ==
    /\ pc = "amend"
    /\ Len(df_amend) = Len(amendment_files)
    /\ pc' = "returned"
    /\ UNCHANGED <<amendment_files, df_amend, logged, pdf_path>>
    /\ UNCHANGED <<renderVars, extractVars, upsertVars, mainVars>>

NextAmend == AmendFile \/ AmendReturn

SpecAmend == InitAmend /\ [][NextAmend]_vars

(* What an amendment file holds, read off the file itself *)
DocTexts(f) == IF f.opens THEN [i \in 1..Len(f.pgs) |-> f.pgs[i].text] ELSE <<>>
Labels == {Corrigendum, Addendum, Amendment}
OccursAt(t, w, o) ==
    /\ o + Len(w) <= Len(t)
    /\ \A k \in 1..Len(w) : Lower(t[o + k]) = Lower(w[k])
ExactlyAt(t, w, o) == o + Len(w) <= Len(t) /\ \A k \in 1..Len(w) : t[o + k] = w[k]
LabelOffsets(t) == {o \in 0..Len(t) : \E w \in Labels : OccursAt(t, w, o)}
LabelPages(f) == {i \in 1..Len(DocTexts(f)) : LabelOffsets(DocTexts(f)[i]) # {}}
Least(S) == CHOOSE x \in S : \A y \in S : x <= y

(* The first label occurrence, as spelled in the document *)
FirstLabel(f) ==
    LET t == DocTexts(f)[Least(LabelPages(f))]
        o == Least(LabelOffsets(t))
        w == CHOOSE x \in Labels : OccursAt(t, x, o)
    IN Slice(t, o, o + Len(w))

DateTokens(t) == FindIter(Compile(DateRe, {"IGNORECASE"}), t)
DatePages(f) == {i \in 1..Len(DocTexts(f)) : DateTokens(DocTexts(f)[i]) # <<>>}
FirstDate(f) == DateTokens(DocTexts(f)[Least(DatePages(f))])[1].g0

RecordsMatchFiles(noLabel) ==
    /\ Len(df_amend) <= Len(amendment_files)
    /\ pc = "returned" => Len(df_amend) = Len(amendment_files)
    /\ \A i \in 1..Len(df_amend) :
          LET f == amendment_files[i]
          IN /\ df_amend[i].FileName = f.name
             /\ df_amend[i].Pages = Len(DocTexts(f))
             /\ df_amend[i].AmendmentType =
                    IF LabelPages(f) # {} THEN FirstLabel(f) ELSE noLabel
             /\ df_amend[i].Date = IF DatePages(f) # {} THEN FirstDate(f) ELSE <<>>

(* C9 as stated: one record per amendment file, in input order, with the
   file's name and page count; AmendmentType is the label found and the
   empty string if none is found; Date is the date-like token found and the
   empty string if none is found. *)
C9_AsStated == RecordsMatchFiles(<<>>)

(* C9 as amended: as stated, except that AmendmentType is "Corrigendum/Addendum"
   when no label is found (a label found is recorded as spelled in the file). *)
C9_RecordPerAmendment == RecordsMatchFiles(DefaultLabel)

(* C9 happens: a readable file with pages but no label and no date has its
   record, with the default label and an empty date. *)
C9_Witness ==
    /\ pc = "returned"
    /\ \E i \in 1..Len(df_amend) :
          /\ amendment_files[i].opens
          /\ Len(amendment_files[i].pgs) >= 1
          /\ LabelPages(amendment_files[i]) = {}
          /\ DatePages(amendment_files[i]) = {}
          /\ df_amend[i].AmendmentType = DefaultLabel
          /\ df_amend[i].Date = <<>>
          /\ df_amend[i].Pages = Len(amendment_files[i].pgs)

ContainsAnyCase(f, w) ==
    \E i \in 1..Len(DocTexts(f)) : \E o \in 0..Len(DocTexts(f)[i]) : OccursAt(DocTexts(f)[i], w, o)
Contains(f, w) ==
    \E i \in 1..Len(DocTexts(f)) : \E o \in 0..Len(DocTexts(f)[i]) : ExactlyAt(DocTexts(f)[i], w, o)

(* C10 as stated: a file whose text contains "Addendum" in any letter case
   and the token "12/05/2024" gets AmendmentType "Addendum" and Date
   "12/05/2024". *)
C10_AsStated ==
    \A i \in 1..Len(df_amend) :
        (ContainsAnyCase(amendment_files[i], Addendum) /\ Contains(amendment_files[i], Date12May))
        => (df_amend[i].AmendmentType = Addendum /\ df_amend[i].Date = Date12May)

(* C10 as amended: a file whose first label occurrence (earliest page, then
   leftmost, of Corrigendum / Addendum / Amendment in any letter case) is
   spelled "Addendum" and whose first date-like token is "12/05/2024" gets
   AmendmentType "Addendum" and Date "12/05/2024". *)
C10_FirstLabelAndDate ==
    \A i \in 1..Len(df_amend) :
        LET f == amendment_files[i]
        IN (/\ LabelPages(f) # {} /\ FirstLabel(f) = Addendum
            /\ DatePages(f) # {} /\ FirstDate(f) = Date12May)
           => (df_amend[i].AmendmentType = Addendum /\ df_amend[i].Date = Date12May)

(* C10 happens: the file opens with "Addendum 12/05/2024" and a later page
   holds another label and another date. *)
C10_Witness ==
    \E i \in 1..Len(df_amend) :
        LET f == amendment_files[i]
        IN /\ Len(DocTexts(f)) >= 2
           /\ LabelPages(f) # {} /\ FirstLabel(f) = Addendum
           /\ DatePages(f) # {} /\ FirstDate(f) = Date12May
           /\ ContainsAnyCase(f, Corrigendum)
           /\ df_amend[i].AmendmentType = Addendum
           /\ df_amend[i].Date = Date12May

-----------------------------------------------------------------------------
(* main *)

NoRules == [parses |-> TRUE, given |-> FALSE, data |-> <<>>]     \* --rules absent

(* load_rules: the three collections, each empty when the file lacks it *)
load_rules(rf) ==
    [extractors |-> Get(rf.data, "extractors", <<>>),
     bid_info_map |-> Get(rf.data, "bid_info_map", <<>>),
     defaults |-> Get(rf.data, "defaults", <<>>)]

(* all_pages / pages_simple: every file's pages, file after file *)
RECURSIVE CollectPages(_)
CollectPages(files) ==
    IF files = <<>> THEN <<>>
    ELSE read_pdf_text_with_pages(Head(files)).pages \o CollectPages(Tail(files))

HeaderFlags == {"IGNORECASE", "DOTALL", "MULTILINE"}

(* The header loop: field -> clean_text(m.group(1)) if m else "".  m.group(1)
   is an IndexError when the pattern that matched has no group. *)
RECURSIVE HeaderValues(_, _)
HeaderValues(items, pgs) ==
    IF items = <<>> THEN [ok |-> TRUE, v |-> <<>>]
    ELSE LET hit == find_first(Head(items).v, pgs, HeaderFlags)
             rest == HeaderValues(Tail(items), pgs)
         IN IF hit.m.ok /\ Len(hit.m.groups) < 1 THEN [ok |-> FALSE, v |-> <<>>]
            ELSE IF ~rest.ok THEN rest
            ELSE [ok |-> TRUE,
                  v |-> <<[k |-> Head(items).k,
                           v |-> IF hit.m.ok THEN clean_text(hit.m.groups[1]) ELSE <<>>]>>
                        \o rest.v]

(* bid_info_values.setdefault(k, v) for every default *)
RECURSIVE SetDefaults(_, _)
SetDefaults(vals, defs) ==
    IF defs = <<>> THEN vals
    ELSE SetDefaults(IF \E i \in 1..Len(vals) : vals[i].k = Head(defs).k
                     THEN vals ELSE Append(vals, Head(defs)),
                     Tail(defs))

(* safe = sn[:31], for the sheet names of the templates below *)
Truncated(sn) ==
    IF sn = "Technical_Qualification_Requirements" THEN "Technical_Qualification_Require"
    ELSE sn

(* df.to_excel(writer, sheet_name): a sheet of that name is written over *)
WriteSheet(book, name, df) ==
    IF \E i \in 1..Len(book) : book[i].name = name
    THEN [i \in 1..Len(book) |-> IF book[i].name = name THEN [name |-> name, df |-> df] ELSE book[i]]
    ELSE Append(book, [name |-> name, df |-> df])

RECURSIVE WriteClones(_, _)
WriteClones(book, sheets) ==
    IF sheets = <<>> THEN book
    ELSE WriteClones(WriteSheet(book, Truncated(Head(sheets)), <<>>), Tail(sheets))

WriteWorkbook(cl, master, bidinfo, amend, meta) ==
    WriteSheet(WriteSheet(WriteSheet(WriteSheet(WriteClones(<<>>, cl),
        "AI_Tagging_Master", master), "BID_INFO", bidinfo),
        "AmendmentTracker", amend), "TenderMeta", meta)

-----------------------------------------------------------------------------
(* One run of main, phase by phase *)

MaxMainPdfs == 2

MainFiles ==
    { [name |-> "lost.pdf", opens |-> FALSE, pgs |-> <<>>],
      [name |-> "rfs.pdf", opens |-> TRUE,
       pgs |-> <<[raises |-> FALSE, text |-> <<"1", "0", " ", "M", "W">>]>>],
      [name |-> "itb.pdf", opens |-> TRUE,
       pgs |-> <<[raises |-> TRUE, text |-> None],
                 [raises |-> FALSE,
                  text |-> <<"2", "5", " ", "M", "W", " ", "3", "0", " ", "m", "w">>]>>] }

MainAmendFiles ==
    { [name |-> "gone.pdf", opens |-> FALSE, pgs |-> <<>>],
      [name |-> "add1.pdf", opens |-> TRUE,
       pgs |-> <<[raises |-> FALSE, text |-> Addendum \o <<" ">> \o Date12May]>>] }

CapacityDirective ==
    [section |-> "Technical", clause |-> "1.1", parameter |-> "Capacity", mode |-> "all",
     pattern |-> CapacityRe, value_expr |-> <<Fld("0"), Lt(<<" ", "M", "W">>)>>]

TBD == <<"T", "B", "D">>
BidderRe == Cat(<<Lit(<<"B", "y", " ">>), Grp(1, "", Rep(Cls({"x", "y"}), 1, -1))>>)  \* By ([xy]+)
UnitGapRe == Cat(<<NumberRe, Grp(1, "", Rep(Cls(WS), 0, -1)), Lit(MW)>>)               \* \d+(\s*)MW

RuleFiles ==
    { NoRules,
      [parses |-> FALSE, given |-> TRUE, data |-> <<>>],
      [parses |-> TRUE, given |-> TRUE, data |-> [defaults |-> <<[k |-> "Bidder", v |-> TBD]>>]],
      [parses |-> TRUE, given |-> TRUE,
       data |-> [extractors |-> <<CapacityDirective>>,
                 bid_info_map |-> <<[k |-> "Capacity", v |-> CapacityRe],
                                    [k |-> "Bidder", v |-> BidderRe]>>,
                 defaults |-> <<[k |-> "Capacity", v |-> TBD], [k |-> "Bidder", v |-> TBD],
                                [k |-> "Tender", v |-> TBD]>>]],
      [parses |-> TRUE, given |-> TRUE,
       data |-> [extractors |-> <<CapacityDirective>>,
                 bid_info_map |-> <<[k |-> "Unit", v |-> UnitGapRe]>>,
                 defaults |-> <<[k |-> "Unit", v |-> TBD]>>]],
      [parses |-> TRUE, given |-> TRUE,
       data |-> [extractors |-> <<>>,
                 bid_info_map |-> <<[k |-> "Unit", v |-> Lit(MW)]>>,
                 defaults |-> <<>>]] }

Templates ==
    { [readable |-> FALSE, sheets |-> <<>>],
      [readable |-> TRUE, sheets |-> <<"Summary", "BID_INFO", "Technical_Qualification_Requirements">>] }

InitMain ==
    /\ pc = "load_rules"
    /\ args \in [template : Templates,
                 pdf : UNION {[1..n -> MainFiles] : n \in 1..MaxMainPdfs},
                 amendment : UNION {[1..n -> MainAmendFiles] : n \in 0..MaxAmend},
                 rules : RuleFiles]
    /\ rules = <<>> /\ clones = <<>> /\ bid_info_values = <<>> /\ written = <<>> /\ status = ""
    /\ pages = <<>> /\ extractors = <<>> /\ results = <<>> /\ lastExt = <<>>
    /\ bid_info_df = <<>> /\ mapping = <<>> /\ latest = <<>> /\ prev_df = <<>>
    /\ pdf_path = <<>> /\ logged = <<>>
    /\ amendment_files = <<>> /\ df_amend = <<>>
    /\ RenderIdle

MainLoadRules ==
    /\ pc = "load_rules"
    /\ IF args.rules.given /\ ~args.rules.parses
       THEN pc' = "aborted" /\ status' = "YAMLError" /\ UNCHANGED rules
       ELSE pc' = "clone" /\ rules' = load_rules(args.rules) /\ UNCHANGED status
    /\ UNCHANGED <<args, clones, bid_info_values, written>>
    /\ UNCHANGED <<renderVars, extractVars, upsertVars, readerVars, amendVars>>

MainCloneTemplate ==
    /\ pc = "clone"
    /\ IF ~args.template.readable
       THEN pc' = "aborted" /\ status' = "FileNotFoundError" /\ UNCHANGED clones
       ELSE pc' = "read" /\ clones' = args.template.sheets /\ UNCHANGED status
    /\ UNCHANGED <<args, rules, bid_info_values, written>>
    /\ UNCHANGED <<renderVars, extractVars, upsertVars, readerVars, amendVars>>

MainReadPdfs ==
    /\ pc = "read"
    /\ pages' = CollectPages(args.pdf)
    /\ logged' = logged \o ReadLogs(args.pdf)
    /\ pc' = "extract"
    /\ UNCHANGED <<extractors, results, lastExt, pdf_path>>
    /\ UNCHANGED <<renderVars, upsertVars, amendVars, mainVars>>

MainRunExtractors ==
    /\ pc = "extract"
    /\ results' = run_extractors(pages, rules.extractors)
    /\ pc' = "bid_info"
    /\ UNCHANGED <<pages, extractors, lastExt>>
    /\ UNCHANGED <<renderVars, upsertVars, readerVars, amendVars, mainVars>>

MainBidInfo ==
    /\ pc = "bid_info"
    /\ LET hv == HeaderValues(rules.bid_info_map, pages)
       IN IF hv.ok
          THEN pc' = "defaults" /\ bid_info_values' = hv.v /\ UNCHANGED status
          ELSE pc' = "aborted" /\ status' = "IndexError" /\ UNCHANGED bid_info_values
    /\ UNCHANGED <<args, rules, clones, written>>
    /\ UNCHANGED <<renderVars, extractVars, upsertVars, readerVars, amendVars>>

MainDefaults ==
    /\ pc = "defaults"
    /\ bid_info_values' = SetDefaults(bid_info_values, rules.defaults)
    /\ pc' = "upsert"
    /\ UNCHANGED <<args, rules, clones, written, status>>
    /\ UNCHANGED <<renderVars, extractVars, upsertVars, readerVars, amendVars>>

MainUpsert ==
    /\ pc = "upsert"
    /\ bid_info_df' = upsert_bid_info(<<>>, bid_info_values)
    /\ pc' = "amend"
    /\ UNCHANGED <<mapping, latest, prev_df>>
    /\ UNCHANGED <<renderVars, extractVars, readerVars, amendVars, mainVars>>

MainAmendments ==
    /\ pc = "amend"
    /\ df_amend' = append_amendments(args.amendment)
    /\ logged' = logged \o ReadLogs(args.amendment)
    /\ pc' = "write"
    /\ UNCHANGED <<amendment_files, pdf_path>>
    /\ UNCHANGED <<renderVars, extractVars, upsertVars, mainVars>>

MainWrite ==
    /\ pc = "write"
    /\ written' = WriteWorkbook(clones, results, bid_info_df, df_amend,
                                <<[Key |-> "SourceCount", Value |-> Len(args.pdf)],
                                  [Key |-> "AmendmentsCount", Value |-> Len(args.amendment)]>>)
    /\ status' = "0"
    /\ pc' = "done"
    /\ UNCHANGED <<args, rules, clones, bid_info_values>>
    /\ UNCHANGED <<renderVars, extractVars, upsertVars, readerVars, amendVars>>

NextMain ==
    \/ MainLoadRules \/ MainCloneTemplate \/ MainReadPdfs \/ MainRunExtractors
    \/ MainBidInfo \/ MainDefaults \/ MainUpsert \/ MainAmendments \/ MainWrite

SpecMain == InitMain /\ [][NextMain]_vars

(* The header value of field k as the rule set and the pages give it: the
   cleaned group 1 of the first match, "" without a match *)
HeaderPattern(k) == rules.bid_info_map[ItemValue(rules.bid_info_map, k)].v
HeaderMatchPages(k) ==
    {i \in 1..Len(pages) : FindIter(Compile(HeaderPattern(k), HeaderFlags), pages[i].text) # <<>>}
Extracted(k) ==
    IF HeaderMatchPages(k) = {} THEN <<>>
    ELSE clean_text(FindIter(Compile(HeaderPattern(k), HeaderFlags),
                             pages[Least(HeaderMatchPages(k))].text)[1].groups[1])

Merged == pc \in {"amend", "write", "done"}

(* C1: for every field with a declared default, the BID_INFO value is the
   default if the field was not extracted, the default if it was extracted
   as the empty string, and the extracted value if that is not empty. *)
C1_DefaultsFillAbsentOrEmpty ==
    Merged =>
        \A j \in 1..Len(rules.defaults) :
            LET k == rules.defaults[j].k
                v == rules.defaults[j].v
            IN /\ Cardinality(RowsOf(bid_info_df, k)) = 1
               /\ \A i \in RowsOf(bid_info_df, k) :
                     bid_info_df[i].Value =
                        IF k \notin Keys(rules.bid_info_map) THEN v
                        ELSE IF Extracted(k) = <<>> THEN v ELSE Extracted(k)

(* The pages of the files that open, file after file, numbered per file *)
RECURSIVE PagesOfReadable(_)
PagesOfReadable(files) ==
    IF files = <<>> THEN <<>>
    ELSE (IF Head(files).opens
          THEN [i \in 1..Len(Head(files).pgs) |->
                  [pn |-> i,
                   text |-> IF Head(files).pgs[i].raises \/ Head(files).pgs[i].text = None
                            THEN <<>> ELSE Head(files).pgs[i].text]]
          ELSE <<>>)
         \o PagesOfReadable(Tail(files))

StandardSheets == {"AI_Tagging_Master", "BID_INFO", "AmendmentTracker", "TenderMeta"}

(* C8: with a readable template and loadable rules, a document that fails to
   open adds no pages and does not end the run: the pages of the other
   documents are collected in file-then-page order, the run always reaches
   the write phase and ends with status 0, and the workbook has the sheets
   AI_Tagging_Master, BID_INFO, AmendmentTracker and TenderMeta. *)
C8_RunCompletesDespiteFailedDocuments ==
    (args.template.readable /\ (args.rules.given => args.rules.parses)) =>
        /\ pc # "aborted"
        /\ pc \notin {"load_rules", "clone", "read"} => pages = PagesOfReadable(args.pdf)
        /\ pc = "done" =>
              /\ status = "0"
              /\ StandardSheets \subseteq {written[i].name : i \in 1..Len(written)}

====
